---- MODULE Spec2Model ----
(***************************************************************************)
(* Backtests of three Bitcoin accumulation strategies: dollar cost         *)
(* averaging (dollar_cost_averaging.py), buying dips below the all-time    *)
(* high (ath_dip_strategy.py) and buying below the moving average          *)
(* (moving_average_strategy.py).  One run of one backtest function is one  *)
(* behaviour: Init is the state after the function's local variables are   *)
(* initialised, each loop iteration is one action and the code after the   *)
(* loop (final calculations and the returned dict) is one action.          *)
(*                                                                         *)
(* Numbers.  The code computes with Python floats.  The model computes     *)
(* with exact fixed-point numbers: a quantity q (dollars, bitcoin, a       *)
(* price, a percentage) is the integer q * SCALE.  The input values are    *)
(* chosen so that every product and every quotient of a purchase is exact. *)
(***************************************************************************)
EXTENDS Integers, Sequences, FiniteSets

\* ------------------------------------------------------------ bounds
\* Longest input series (number of daily bars).
MaxBars == 3

\* Fixed-point resolution: 1 unit of the code = SCALE units of the model.
SCALE == 8 * 25

Fx(n) == n * SCALE

\* Input values, in the code's units.  Close prices include the invalid
\* values 0 and -1, which load_bitcoin_data does not reject.
Closes == {-1, 0, 50, 100, 200}
Highs == {0, 100, 200}
Budgets == {0, 1, 10}
DipPercentages == {0, 50}
Windows == {1, 2, 3}

Strategies == {"dca", "ath", "ma"}

\* ------------------------------------------------------------ arithmetic
Abs(x) == IF x < 0 THEN -x ELSE x

\* Truncated integer quotient, divisor of either sign, b # 0.
IntQuot(a, b) ==
    IF (a >= 0) = (b > 0) THEN Abs(a) \div Abs(b) ELSE -(Abs(a) \div Abs(b))

\* a * b and a / b of the code, on fixed-point numbers (b # 0).
FxMul(a, b) == IntQuot(a * b, SCALE)
FxDiv(a, b) == IntQuot(a * SCALE, b)

Max(a, b) == IF a >= b THEN a ELSE b

RECURSIVE SumTo(_, _, _)
\* sum(f[j] for j in range(lo, hi + 1)), 1-based.
SumTo(f, lo, hi) == IF lo > hi THEN 0 ELSE f[lo] + SumTo(f, lo + 1, hi)

\* ------------------------------------------------------------ inputs
\* One daily bar as load_bitcoin_data builds it (the fields the backtests
\* read); prices are fixed-point.  The series is sorted by date: the date
\* of the k-th bar is k.
Bars == {b \in [close : {Fx(c) : c \in Closes}, high : {Fx(h) : h \in Highs}] :
            b.close <= b.high}

DataSets ==
    UNION {{[k \in 1..n |-> [date |-> k, close |-> f[k].close, high |-> f[k].high]] :
                f \in [1..n -> Bars]} : n \in 0..MaxBars}

VARIABLES
    strategy,          \* which backtest function is running
    data,              \* its argument data
    daily,             \* daily_investment (dca) or daily_budget (ath, ma)
    dip_percentage,    \* argument of backtest_ath_dip_strategy
    ma_window,         \* argument of backtest_moving_average_strategy
    moving_averages,   \* calculate_moving_average(data, ma_window)
    i,                 \* number of bars the loop has processed
    all_time_high,
    accumulated_cash,
    total_invested,
    total_bitcoin,     \* total_bitcoin (dca, ath), bitcoin_held (ma)
    purchases,         \* purchases (dca, ath), trades (ma)
    portfolio_values,
    pc,                \* "loop", "done" (returned) or "raised" (exception)
    exception,         \* the exception that ended the run, or "none"
    result             \* the returned dict

vars == <<strategy, data, daily, dip_percentage, ma_window, moving_averages, i,
          all_time_high, accumulated_cash, total_invested, total_bitcoin,
          purchases, portfolio_values, pc, exception, result>>

params == <<strategy, data, daily, dip_percentage, ma_window, moving_averages>>

NoResult == [returned |-> FALSE]

\* ------------------------------------------------------------ moving average
\* moving_averages[i] of calculate_moving_average; k = i + 1 is 1-based.
\* None is the empty tuple, a value avg is <<avg>>.
MovingAverageAt(d, window, k) ==
    IF k - 1 < window - 1
    THEN <<>>
    ELSE <<IntQuot(SumTo([j \in 1..Len(d) |-> d[j].close], k - window + 1, k), window)>>

calculate_moving_average(d, window) ==
    [k \in 1..Len(d) |-> MovingAverageAt(d, window, k)]

\* ------------------------------------------------------------ initial state
Init ==
    /\ strategy \in Strategies
    /\ data \in DataSets
    /\ daily \in {Fx(b) : b \in Budgets}
    /\ dip_percentage \in IF strategy = "ath" THEN {Fx(p) : p \in DipPercentages} ELSE {0}
    /\ ma_window \in IF strategy = "ma" THEN Windows ELSE {0}
    /\ moving_averages =
          IF strategy = "ma" THEN calculate_moving_average(data, ma_window) ELSE <<>>
    /\ i = 0
    /\ all_time_high = 0
    /\ accumulated_cash = 0
    /\ total_invested = 0
    /\ total_bitcoin = 0
    /\ purchases = <<>>
    /\ portfolio_values = <<>>
    /\ pc = "loop"
    /\ exception = "none"
    /\ result = NoResult

\* The run ends with exception e; the locals keep the values given.
Raise(e) ==
    /\ pc' = "raised"
    /\ exception' = e
    /\ result' = NoResult

\* ------------------------------------------------------------ shared metrics
\* Mutant: `>= 0` instead of `> 0`.
InvestedGuard_orZero(invested) == invested >= 0

\* The guard of the return percentage: `if total_invested > 0 else 0`
\* (dollar_cost_averaging.py:49, ath_dip_strategy.py:96,
\* moving_average_strategy.py:81).
InvestedGuard(invested) == invested > 0

\* The guard of the average purchase price: `if total_bitcoin > 0 else 0`
\* (dollar_cost_averaging.py:53, ath_dip_strategy.py:100).
BitcoinGuard(bitcoin) == bitcoin > 0

\* (total_return / total_invested) * 100 if total_invested > 0 else 0
ReturnPercentage(total_return, invested) ==
    IF InvestedGuard(invested)
    THEN FxMul(FxDiv(total_return, invested), Fx(100))
    ELSE 0

\* total_invested / total_bitcoin if total_bitcoin > 0 else 0
AveragePurchasePrice(invested, bitcoin) ==
    IF BitcoinGuard(bitcoin) THEN FxDiv(invested, bitcoin) ELSE 0

\* The divisions of the final calculations divide by zero.
ReturnPercentageRaises(invested) == InvestedGuard(invested) /\ invested = 0
AveragePurchasePriceRaises(bitcoin) == BitcoinGuard(bitcoin) /\ bitcoin = 0

\* Mutant: `accumulated_cash = daily_budget` instead of `+=`.
Accrue_assign(cash, budget) == budget

\* accumulated_cash += daily_budget
Accrue(cash, budget) == cash + budget

\* accumulated_cash + (total_bitcoin * current_price)
PortfolioValue(cash, bitcoin, price) == cash + FxMul(bitcoin, price)

\* ------------------------------------------------------------ dca
\* Mutant: the amount is multiplied by the price.
DcaBitcoinPurchased_times(amount, price) == FxMul(amount, price)

\* bitcoin_purchased = daily_investment / current_price
DcaBitcoinPurchased(amount, price) == FxDiv(amount, price)

\* One iteration of the loop of backtest_dca_strategy.
DcaIterate ==
    /\ strategy = "dca"
    /\ pc = "loop"
    /\ i < Len(data)
    /\ LET day_data == data[i + 1]
           current_price == day_data.close
       IN IF current_price = 0
          THEN /\ Raise("ZeroDivisionError")
               /\ UNCHANGED <<i, total_bitcoin, total_invested, purchases,
                              portfolio_values>>
          ELSE LET bitcoin_purchased == DcaBitcoinPurchased(daily, current_price)
                   new_bitcoin == total_bitcoin + bitcoin_purchased
                   new_invested == total_invested + daily
               IN /\ total_bitcoin' = new_bitcoin
                  /\ total_invested' = new_invested
                  /\ purchases' = Append(purchases,
                        [date |-> day_data.date,
                         price |-> current_price,
                         amount_invested |-> daily,
                         bitcoin_purchased |-> bitcoin_purchased,
                         total_bitcoin |-> new_bitcoin,
                         total_invested |-> new_invested])
                  /\ portfolio_values' =
                        Append(portfolio_values, FxMul(new_bitcoin, current_price))
                  /\ i' = i + 1
                  /\ UNCHANGED <<pc, exception, result>>
    /\ UNCHANGED <<params, all_time_high, accumulated_cash>>

\* The code after the loop of backtest_dca_strategy: final calculations and
\* the returned dict.  data[-1] of an empty list raises IndexError.
DcaReturn ==
    /\ strategy = "dca"
    /\ pc = "loop"
    /\ i = Len(data)
    /\ IF Len(data) = 0
       THEN Raise("IndexError")
       ELSE LET final_price == data[Len(data)].close
                final_value == FxMul(total_bitcoin, final_price)
                total_return == final_value - total_invested
            IN IF ReturnPercentageRaises(total_invested)
                  \/ AveragePurchasePriceRaises(total_bitcoin)
               THEN Raise("ZeroDivisionError")
               ELSE /\ pc' = "done"
                    /\ exception' = "none"
                    /\ result' =
                         [returned |-> TRUE,
                          total_invested |-> total_invested,
                          final_value |-> final_value,
                          total_return |-> total_return,
                          return_percentage |->
                              ReturnPercentage(total_return, total_invested),
                          total_bitcoin |-> total_bitcoin,
                          average_purchase_price |->
                              AveragePurchasePrice(total_invested, total_bitcoin),
                          final_bitcoin_price |-> final_price,
                          daily_investment |-> daily,
                          number_of_days |-> Len(data),
                          purchases |-> purchases,
                          portfolio_values |-> portfolio_values]
    /\ UNCHANGED <<params, i, all_time_high, accumulated_cash, total_invested,
                   total_bitcoin, purchases, portfolio_values>>

\* ------------------------------------------------------------ ath dip
\* Mutant: the extreme is overwritten by today's high.
AthUpdate_overwrite(ath, current_high) == current_high

\* all_time_high = max(all_time_high, current_high)
AthUpdate(ath, current_high) == Max(ath, current_high)

\* dip_threshold = all_time_high * (1 - dip_percentage / 100)
DipThreshold(ath, dip) == FxMul(ath, Fx(1) - FxDiv(dip, Fx(100)))

\* Mutant: `<` instead of `<=`.
BuySignal_strict(price, threshold, cash) == price < threshold /\ cash > 0

\* buy_signal = current_price <= dip_threshold and accumulated_cash > 0
BuySignal(price, threshold, cash) == price <= threshold /\ cash > 0

\* if buy_signal and all_time_high > 0
AthBuys(price, ath, dip, cash) ==
    BuySignal(price, DipThreshold(ath, dip), cash) /\ ath > 0

\* Mutant: `total_invested = accumulated_cash` instead of `+=`.
AthInvested_assign(invested, cash) == cash

\* total_invested += accumulated_cash
AthInvested(invested, cash) == invested + cash

\* Mutant: the undeployed cash is not subtracted.
AthTotalReturn_withCash(final_value, invested, cash) == final_value - invested

\* total_return = final_value - total_invested - accumulated_cash
AthTotalReturn(final_value, invested, cash) == final_value - invested - cash

\* The dict appended to portfolio_values.
AthSnapshot(day_data, ath, cash, bitcoin, invested) ==
    LET portfolio_value == PortfolioValue(cash, bitcoin, day_data.close)
    IN [date |-> day_data.date,
        price |-> day_data.close,
        ath |-> ath,
        portfolio_value |-> portfolio_value,
        total_invested |-> invested,
        accumulated_cash |-> cash,
        unrealized_return |->
            IF invested > 0 THEN portfolio_value - invested - cash ELSE 0]

\* One iteration of the loop of backtest_ath_dip_strategy.
AthIterate ==
    /\ strategy = "ath"
    /\ pc = "loop"
    /\ i < Len(data)
    /\ LET day_data == data[i + 1]
           current_price == day_data.close
           current_high == day_data.high
           cash == Accrue(accumulated_cash, daily)
           ath == AthUpdate(all_time_high, current_high)
       IN /\ all_time_high' = ath
          /\ IF AthBuys(current_price, ath, dip_percentage, cash)
             THEN IF current_price = 0
                  THEN /\ Raise("ZeroDivisionError")
                       /\ accumulated_cash' = cash
                       /\ UNCHANGED <<i, total_bitcoin, total_invested, purchases,
                                      portfolio_values>>
                  ELSE LET bitcoin_purchased == FxDiv(cash, current_price)
                           new_bitcoin == total_bitcoin + bitcoin_purchased
                           new_invested == AthInvested(total_invested, cash)
                           dip_from_ath ==
                               FxMul(FxDiv(ath - current_price, ath), Fx(100))
                       IN /\ total_bitcoin' = new_bitcoin
                          /\ total_invested' = new_invested
                          /\ purchases' = Append(purchases,
                                [date |-> day_data.date,
                                 price |-> current_price,
                                 amount_invested |-> cash,
                                 bitcoin_purchased |-> bitcoin_purchased,
                                 all_time_high |-> ath,
                                 dip_percentage |-> dip_from_ath,
                                 total_bitcoin |-> new_bitcoin,
                                 total_invested |-> new_invested,
                                 purchase_number |-> Len(purchases) + 1])
                          /\ accumulated_cash' = 0
                          /\ portfolio_values' = Append(portfolio_values,
                                AthSnapshot(day_data, ath, 0, new_bitcoin, new_invested))
                          /\ i' = i + 1
                          /\ UNCHANGED <<pc, exception, result>>
             ELSE /\ accumulated_cash' = cash
                  /\ portfolio_values' = Append(portfolio_values,
                        AthSnapshot(day_data, ath, cash, total_bitcoin, total_invested))
                  /\ i' = i + 1
                  /\ UNCHANGED <<total_bitcoin, total_invested, purchases, pc,
                                 exception, result>>
    /\ UNCHANGED params

\* The code after the loop of backtest_ath_dip_strategy.
AthReturn ==
    /\ strategy = "ath"
    /\ pc = "loop"
    /\ i = Len(data)
    /\ IF Len(data) = 0
       THEN Raise("IndexError")
       ELSE LET final_price == data[Len(data)].close
                final_value ==
                    PortfolioValue(accumulated_cash, total_bitcoin, final_price)
                total_return ==
                    AthTotalReturn(final_value, total_invested, accumulated_cash)
            IN IF ReturnPercentageRaises(total_invested)
                  \/ AveragePurchasePriceRaises(total_bitcoin)
               THEN Raise("ZeroDivisionError")
               ELSE /\ pc' = "done"
                    /\ exception' = "none"
                    /\ result' =
                         [returned |-> TRUE,
                          dip_percentage |-> dip_percentage,
                          daily_budget |-> daily,
                          total_invested |-> total_invested,
                          final_value |-> final_value,
                          total_return |-> total_return,
                          return_percentage |->
                              ReturnPercentage(total_return, total_invested),
                          total_bitcoin |-> total_bitcoin,
                          average_purchase_price |->
                              AveragePurchasePrice(total_invested, total_bitcoin),
                          final_bitcoin_price |-> final_price,
                          final_ath |-> all_time_high,
                          accumulated_cash |-> accumulated_cash,
                          number_of_purchases |-> Len(purchases),
                          number_of_days |-> Len(data),
                          purchases |-> purchases,
                          portfolio_values |-> portfolio_values]
    /\ UNCHANGED <<params, i, all_time_high, accumulated_cash, total_invested,
                   total_bitcoin, purchases, portfolio_values>>

\* ------------------------------------------------------------ moving average
\* Mutant: `<=` instead of `<`.
MaBuys_orEqual(price, ma, cash) == price <= ma /\ cash > 0

\* if current_price < ma and accumulated_cash > 0
MaBuys(price, ma, cash) == price < ma /\ cash > 0

\* Mutant: `continue` without appending the portfolio value.
MaWarmupValues_skip(values, cash, bitcoin, price) == values

\* The `ma is None` branch: the portfolio value is appended before `continue`.
MaWarmupValues(values, cash, bitcoin, price) ==
    Append(values, PortfolioValue(cash, bitcoin, price))

\* One iteration of the loop of backtest_moving_average_strategy.
MaIterate ==
    /\ strategy = "ma"
    /\ pc = "loop"
    /\ i < Len(data)
    /\ LET day_data == data[i + 1]
           current_price == day_data.close
           ma == moving_averages[i + 1]
           cash == Accrue(accumulated_cash, daily)
       IN IF ma = <<>>
          THEN /\ accumulated_cash' = cash
               /\ portfolio_values' =
                     MaWarmupValues(portfolio_values, cash, total_bitcoin, current_price)
               /\ i' = i + 1
               /\ UNCHANGED <<total_bitcoin, total_invested, purchases, pc,
                              exception, result>>
          ELSE IF MaBuys(current_price, ma[1], cash)
               THEN IF current_price = 0
                    THEN /\ Raise("ZeroDivisionError")
                         /\ accumulated_cash' = cash
                         /\ UNCHANGED <<i, total_bitcoin, total_invested, purchases,
                                        portfolio_values>>
                    ELSE LET bitcoin_bought == FxDiv(cash, current_price)
                             new_bitcoin == total_bitcoin + bitcoin_bought
                         IN /\ total_bitcoin' = new_bitcoin
                            /\ total_invested' = total_invested + cash
                            /\ purchases' = Append(purchases,
                                  [date |-> day_data.date,
                                   action |-> "BUY",
                                   price |-> current_price,
                                   amount |-> bitcoin_bought,
                                   cash_used |-> cash])
                            /\ accumulated_cash' = 0
                            /\ portfolio_values' = Append(portfolio_values,
                                  PortfolioValue(0, new_bitcoin, current_price))
                            /\ i' = i + 1
                            /\ UNCHANGED <<pc, exception, result>>
               ELSE /\ accumulated_cash' = cash
                    /\ portfolio_values' = Append(portfolio_values,
                          PortfolioValue(cash, total_bitcoin, current_price))
                    /\ i' = i + 1
                    /\ UNCHANGED <<total_bitcoin, total_invested, purchases, pc,
                                   exception, result>>
    /\ UNCHANGED <<params, all_time_high>>

\* The code after the loop of backtest_moving_average_strategy.
MaReturn ==
    /\ strategy = "ma"
    /\ pc = "loop"
    /\ i = Len(data)
    /\ IF Len(data) = 0
       THEN Raise("IndexError")
       ELSE LET final_value ==
                    PortfolioValue(accumulated_cash, total_bitcoin, data[Len(data)].close)
            IN IF ReturnPercentageRaises(total_invested)
               THEN Raise("ZeroDivisionError")
               ELSE /\ pc' = "done"
                    /\ exception' = "none"
                    /\ result' =
                         [returned |-> TRUE,
                          total_invested |-> total_invested,
                          final_value |-> final_value,
                          total_return |-> final_value - total_invested,
                          return_percentage |->
                              ReturnPercentage(final_value - total_invested,
                                               total_invested),
                          trades |-> purchases,
                          portfolio_values |-> portfolio_values,
                          moving_average_window |-> ma_window,
                          bitcoin_held |-> total_bitcoin,
                          accumulated_cash |-> accumulated_cash,
                          daily_budget |-> daily,
                          number_of_days |-> Len(data)]
    /\ UNCHANGED <<params, i, all_time_high, accumulated_cash, total_invested,
                   total_bitcoin, purchases, portfolio_values>>

\* ------------------------------------------------------------ specification
Next ==
    \/ DcaIterate
    \/ DcaReturn
    \/ AthIterate
    \/ AthReturn
    \/ MaIterate
    \/ MaReturn

Spec == Init /\ [][Next]_vars

\* ------------------------------------------------------------ properties
\* The cash amount and the units of an allocation event: the fields
\* amount_invested and bitcoin_purchased of a purchase (dca, ath), cash_used
\* and amount of a trade (ma).
EventCash(e) == IF strategy = "ma" THEN e.cash_used ELSE e.amount_invested
EventUnits(e) == IF strategy = "ma" THEN e.amount ELSE e.bitcoin_purchased

RECURSIVE SumCash(_)
SumCash(events) ==
    IF events = <<>> THEN 0 ELSE EventCash(Head(events)) + SumCash(Tail(events))

RECURSIVE SumUnits(_)
SumUnits(events) ==
    IF events = <<>> THEN 0 ELSE EventUnits(Head(events)) + SumUnits(Tail(events))

LastClose == data[Len(data)].close

\* The series the loader is meant to deliver: every price is positive.
ValidData == \A k \in 1..Len(data) : data[k].close > 0 /\ data[k].high > 0

\* The closes of the series, in the code's units times SCALE.
CloseSeq == [k \in 1..Len(data) |-> data[k].close]

\* The maximum of the highs of the first n bars, starting from 0.
RECURSIVE MaxHigh(_)
MaxHigh(n) == IF n = 0 THEN 0 ELSE Max(MaxHigh(n - 1), data[n].high)

\* A loop iteration has processed bar i + 1 without raising.
BarProcessed == pc = "loop" /\ pc' = "loop" /\ i' = i + 1

\* C1 -- Conservation: in each of the three backtests, after every processed
\* bar, total_invested is the sum of the cash amounts of the allocation events
\* recorded so far and the holding is the sum of their units.
C1_Conservation ==
    /\ total_invested = SumCash(purchases)
    /\ total_bitcoin = SumUnits(purchases)

\* Two deployments of different amounts have been recorded by the dip backtest.
C1_Witness ==
    /\ strategy = "ath"
    /\ ValidData
    /\ Len(purchases) = 2
    /\ purchases[1].amount_invested # purchases[2].amount_invested
    /\ total_invested = purchases[1].amount_invested + purchases[2].amount_invested

\* C2 -- Empty series: with no bars each backtest returns normally, with empty
\* event and valuation sequences and a zero-valued final state.
C2_EmptySeriesReturnsZero ==
    (Len(data) = 0 /\ pc # "loop") =>
        /\ pc = "done"
        /\ result.total_invested = 0
        /\ result.number_of_days = 0
        /\ result.portfolio_values = <<>>
        /\ purchases = <<>>
        /\ total_bitcoin = 0
        /\ accumulated_cash = 0

\* C3 -- Non-positive price: a bar with close <= 0 on which a deployment would
\* occur aborts the run, so no allocation event is ever recorded at a price
\* <= 0 and no run that met such a bar returns a result.
C3_NonPositivePriceAborts ==
    \A k \in 1..Len(purchases) : purchases[k].price > 0

\* C4 (as claimed) -- Summary: for every policy and non-empty series,
\* final_value = accumulated_cash + total_holding * last close and
\* total_return = final_value - total_invested.
C4_SummaryAsClaimed ==
    (pc = "done" /\ ValidData) =>
        /\ result.final_value = accumulated_cash + FxMul(total_bitcoin, LastClose)
        /\ result.total_return = result.final_value - total_invested

\* C4 (amended) -- final_value = accumulated_cash + total_holding * last close
\* for every policy; total_return = final_value - total_invested in the dca
\* and moving-average backtests, while the dip backtest also subtracts the
\* undeployed cash: its total_return is the value of the holding alone minus
\* total_invested.
C4_Summary ==
    pc = "done" =>
        /\ result.final_value = accumulated_cash + FxMul(total_bitcoin, LastClose)
        /\ strategy \in {"dca", "ma"} =>
              result.total_return = result.final_value - total_invested
        /\ strategy = "ath" =>
              result.total_return = FxMul(total_bitcoin, LastClose) - total_invested

\* The dip backtest has returned with a holding and with undeployed cash left.
C4_Witness ==
    /\ strategy = "ath"
    /\ pc = "done"
    /\ ValidData
    /\ accumulated_cash > 0
    /\ purchases # <<>>
    /\ result.total_return # result.final_value - total_invested

\* C5 -- Dip rule: on every bar the dip backtest processes, after the accrual
\* and after the extreme took today's high, an allocation event is recorded
\* if and only if close <= extreme * (1 - dip_percentage / 100) and
\* extreme > 0 and accumulated_cash > 0 (equality triggers); a deployment
\* uses the whole accumulated cash and leaves it at 0; otherwise the holding
\* and total_invested do not change.
C5_DipRule ==
    [][(strategy = "ath" /\ BarProcessed) =>
        LET bar == data[i + 1]
            cash == accumulated_cash + daily
            extreme == IF bar.high > all_time_high THEN bar.high ELSE all_time_high
            triggers ==
                /\ bar.close * Fx(100) <= extreme * (Fx(100) - dip_percentage)
                /\ extreme > 0
                /\ cash > 0
        IN /\ (Len(purchases') = Len(purchases) + 1) <=> triggers
           /\ triggers =>
                /\ purchases' = Append(purchases, purchases'[Len(purchases')])
                /\ purchases'[Len(purchases')].date = bar.date
                /\ purchases'[Len(purchases')].amount_invested = cash
                /\ purchases'[Len(purchases')].bitcoin_purchased * bar.close
                      = cash * SCALE
                /\ total_invested' = total_invested + cash
                /\ accumulated_cash' = 0
           /\ ~triggers =>
                /\ purchases' = purchases
                /\ total_bitcoin' = total_bitcoin
                /\ total_invested' = total_invested
                /\ accumulated_cash' = cash]_vars

\* The dip backtest has just deployed two days of cash on a bar whose close
\* is exactly at the threshold.
C5_Witness ==
    /\ strategy = "ath"
    /\ ValidData
    /\ dip_percentage > 0
    /\ pc = "loop"
    /\ i = 2
    /\ Len(purchases) = 1
    /\ purchases[1].date = 2
    /\ purchases[1].price * Fx(100) = all_time_high * (Fx(100) - dip_percentage)
    /\ purchases[1].amount_invested = 2 * daily
    /\ accumulated_cash = 0

C7_SnapshotCardinality ==
    /\ [](/\ Len(portfolio_values) = i
          /\ Len(purchases) <= i
          /\ \A k \in 1..Len(purchases) :
                /\ purchases[k].date \in 1..i
                /\ k > 1 => purchases[k - 1].date < purchases[k].date
          /\ strategy = "ath" =>
                \A k \in 1..Len(portfolio_values) :
                    portfolio_values[k].date = data[k].date
          /\ pc = "done" =>
                /\ Len(result.portfolio_values) = Len(data)
                /\ result.portfolio_values = portfolio_values)
    /\ [][BarProcessed =>
            /\ portfolio_values' =
                  Append(portfolio_values, portfolio_values'[Len(portfolio_values')])
            /\ \/ purchases' = purchases
               \/ /\ purchases' = Append(purchases, purchases'[Len(purchases')])
                  /\ purchases'[Len(purchases')].date = data[i + 1].date]_vars

\* The moving-average backtest has returned three valuations for three bars,
\* two of them from before the window filled, and one event.
C7_Witness ==
    /\ strategy = "ma"
    /\ ValidData
    /\ ma_window = 3
    /\ pc = "done"
    /\ Len(data) = 3
    /\ Len(result.portfolio_values) = 3
    /\ Len(result.trades) = 1

\* C8 -- Fixed amount: the dca backtest records on every processed bar one
\* event of amount daily_investment with units daily_investment / close, so
\* after n bars total_invested = n * daily_investment and there are n events;
\* no cash idles: each valuation is the holding times the close.  With
\* daily_investment 10 and closes [100, 50, 200]: total_invested 30,
\* final_value 70, total_return 40.
C8_FixedAmount ==
    strategy = "dca" =>
        /\ Len(purchases) = i
        /\ Len(portfolio_values) = i
        /\ total_invested = i * daily
        /\ accumulated_cash = 0
        /\ \A k \in 1..i :
              /\ purchases[k].date = data[k].date
              /\ purchases[k].amount_invested = daily
              /\ purchases[k].bitcoin_purchased * data[k].close = daily * SCALE
              /\ portfolio_values[k] * SCALE =
                    purchases[k].total_bitcoin * data[k].close
        /\ (/\ pc = "done"
            /\ daily = Fx(10)
            /\ CloseSeq = <<Fx(100), Fx(50), Fx(200)>>) =>
              /\ result.total_invested = Fx(30)
              /\ result.total_bitcoin * 100 = Fx(35)
              /\ result.final_value = Fx(70)
              /\ result.total_return = Fx(40)
              /\ Len(result.purchases) = 3

\* The dca backtest has returned for daily_investment 10 and closes
\* [100, 50, 200].
C8_Witness ==
    /\ strategy = "dca"
    /\ pc = "done"
    /\ daily = Fx(10)
    /\ CloseSeq = <<Fx(100), Fx(50), Fx(200)>>
    /\ result.final_value = Fx(70)

\* C9 -- Monotonic extreme: in the dip backtest all_time_high never decreases;
\* after each bar it is the maximum of the highs seen so far (from 0), hence
\* >= that bar's high; it is updated on every bar, triggering or not, and
\* before the bar's threshold is computed (an event's threshold is taken from
\* the extreme that includes the event bar's high).
C9_MonotonicExtreme ==
    /\ [](strategy = "ath" =>
            /\ all_time_high =
                  MaxHigh(IF pc = "raised" /\ i < Len(data) THEN i + 1 ELSE i)
            /\ \A k \in 1..Len(portfolio_values) :
                  /\ portfolio_values[k].ath = MaxHigh(k)
                  /\ portfolio_values[k].ath >= data[k].high
            /\ \A k \in 1..Len(purchases) :
                  /\ purchases[k].all_time_high = MaxHigh(purchases[k].date)
                  /\ purchases[k].price * Fx(100) <=
                        MaxHigh(purchases[k].date) * (Fx(100) - dip_percentage))
    /\ [][all_time_high' >= all_time_high]_vars

\* The extreme rose on the second bar, which did not trigger, and the third
\* bar triggered against the risen extreme although its close is above the
\* threshold of the first bar's extreme.
C9_Witness ==
    /\ strategy = "ath"
    /\ ValidData
    /\ dip_percentage > 0
    /\ i = 3
    /\ data[1].high < data[2].high
    /\ Len(purchases) = 1
    /\ purchases[1].date = 3
    /\ purchases[1].all_time_high = data[2].high
    /\ purchases[1].price * Fx(100) > data[1].high * (Fx(100) - dip_percentage)

\* The dip or moving-average backtest has processed a non-empty series
\* without any deployment and has left the loop.
NeverTriggered ==
    /\ strategy \in {"ath", "ma"}
    /\ Len(data) > 0
    /\ i = Len(data)
    /\ pc # "loop"
    /\ purchases = <<>>

\* C10 (as claimed) -- Zero-division guards: a non-empty series on which the
\* dip or moving-average policy never triggers completes without error and
\* reports total_invested = 0, return_percentage = 0 and an average cost
\* basis of 0.
C10_GuardsAsClaimed ==
    NeverTriggered =>
        /\ pc = "done"
        /\ result.total_invested = 0
        /\ result.return_percentage = 0
        /\ "average_purchase_price" \in DOMAIN result
        /\ result.average_purchase_price = 0

\* C10 (amended) -- such a run completes without error and reports
\* total_invested = 0 and return_percentage = 0; the dip backtest also reports
\* average_purchase_price = 0, the moving-average backtest reports no average
\* cost basis.  In every returned run return_percentage is 0 when
\* total_invested is 0, and the average purchase price, where reported, is 0
\* when the holding is 0.
C10_ZeroDivisionGuards ==
    /\ NeverTriggered =>
          /\ pc = "done"
          /\ result.total_invested = 0
          /\ result.return_percentage = 0
          /\ strategy = "ath" => result.average_purchase_price = 0
          /\ strategy = "ma" => "average_purchase_price" \notin DOMAIN result
    /\ pc = "done" =>
          /\ total_invested = 0 => result.return_percentage = 0
          /\ (strategy # "ma" /\ total_bitcoin = 0) =>
                result.average_purchase_price = 0

\* The dip backtest has returned from a series of at least two valid bars
\* that never triggered, with the accrued cash still undeployed.
C10_Witness ==
    /\ strategy = "ath"
    /\ ValidData
    /\ NeverTriggered
    /\ Len(data) >= 2
    /\ pc = "done"
    /\ accumulated_cash > 0
    /\ result.return_percentage = 0
    /\ result.average_purchase_price = 0

====
